---- MODULE Spec2Model ----
(***************************************************************************)
(* A model of src/multi_armed_bandit.py: the class k_bandit_epsilon_greedy *)
(* (a stationary k-armed bandit under an epsilon-greedy policy).           *)
(*                                                                         *)
(* Real numbers (Python floats) are modelled as exact rationals <<n, d>>   *)
(* in lowest terms with d > 0.  A numpy array is a function on 0..len-1.   *)
(* The dtype of action_values is kept: np.repeat(initial_reward, k) makes  *)
(* an int64 array when initial_reward is a Python int, and storing a float *)
(* into an int64 array truncates it toward zero.                           *)
(* Random draws (np.random.ranf, randint, normal) are nondeterministic     *)
(* choices from small sets.                                                *)
(***************************************************************************)
EXTENDS Integers, FiniteSets, TLC

VARIABLES
    misconfigured,          \* ghost: the constructor arguments broke the documented preconditions
    raised,                 \* "none", or the exception that ended the last operation
    k, epsilon, iters,      \* self.k, self.epsilon (in units of 1/RandRes), self.iters
    reward_means, reward_variances,
    dtype,                  \* dtype of self.action_values: "float" or "int"
    action_values, action_chosen_counter, total_reward,
    pc,                     \* "no_engine", "idle", or the position inside run_bandit
    iteration_counter, chosen_action, reward,   \* locals of run_bandit
    returned,               \* "none", or the value the last run_bandit call returned
    branch,                 \* ghost: the branch choose_action took last
    rounds,                 \* ghost: rounds completed since construction
    calls,                  \* ghost: run_bandit calls started since construction
    ops,                    \* ghost: choose/reward/update calls made by the current call
    observed                \* ghost: per arm, the plain sum of the rewards of its completed rounds

vars == <<misconfigured, raised, k, epsilon, iters, reward_means, reward_variances,
          dtype, action_values, action_chosen_counter, total_reward, pc,
          iteration_counter, chosen_action, reward, returned, branch, rounds,
          calls, ops, observed>>

config == <<k, epsilon, iters, reward_means, reward_variances, dtype>>

(***************************************************************************)
(* Bounds of the model.                                                    *)
(***************************************************************************)
MaxK == 2           \* largest number of arms
MaxIters == 1       \* largest iters argument
MaxCalls == 2       \* run_bandit calls per engine
RandRes == 3        \* np.random.ranf draws are 0/RandRes .. (RandRes-1)/RandRes

(***************************************************************************)
(* Exact rational arithmetic.                                              *)
(***************************************************************************)
Abs(n) == IF n < 0 THEN -n ELSE n

RECURSIVE Gcd(_, _)
Gcd(a, b) == IF b = 0 THEN a ELSE Gcd(b, a % b)

Norm(n, d) == LET g == Gcd(Abs(n), d) IN <<n \div g, d \div g>>

R(n) == <<n, 1>>
RAdd(x, y) == Norm(x[1] * y[2] + y[1] * x[2], x[2] * y[2])
RSub(x, y) == Norm(x[1] * y[2] - y[1] * x[2], x[2] * y[2])
RMul(x, y) == Norm(x[1] * y[1], x[2] * y[2])
RLess(x, y) == x[1] * y[2] < y[1] * x[2]

\* C conversion of a float to int64: truncation toward zero
Trunc(x) == IF x[1] >= 0 THEN x[1] \div x[2] ELSE -((-x[1]) \div x[2])

(***************************************************************************)
(* numpy helpers.                                                          *)
(***************************************************************************)
Len(arr) == Cardinality(DOMAIN arr)

\* np.repeat(v, n) for n >= 0
Repeat(v, n) == [i \in 0 .. n - 1 |-> v]

\* np.argmax: the first index holding the maximum
Argmax(values) ==
    CHOOSE i \in DOMAIN values :
        /\ \A j \in DOMAIN values : ~RLess(values[i], values[j])
        /\ \A j \in DOMAIN values : j < i => RLess(values[j], values[i])

\* arr[i] = v on an array of the given dtype
SetItem(dt, arr, i, v) ==
    [arr EXCEPT ![i] = IF dt = "int" THEN R(Trunc(v)) ELSE v]

RECURSIVE SumInts(_, _)
SumInts(f, n) == IF n <= 0 THEN 0 ELSE f[n - 1] + SumInts(f, n - 1)

RECURSIVE SumRats(_, _)
SumRats(f, n) == IF n <= 0 THEN R(0) ELSE RAdd(f[n - 1], SumRats(f, n - 1))

(***************************************************************************)
(* Random sources.                                                         *)
(***************************************************************************)
\* np.random.ranf(1)[0]: a float in [0, 1), 0.0 included
RanfValues == 0 .. RandRes - 1

\* np.random.randint(0, k): low inclusive, high exclusive
RandintRangeInclusive(n) == 0 .. n
RandintRange(n) == 0 .. n - 1

\* np.random.normal(loc, scale): loc + z * scale, z a standard normal draw
Zs == {-1, 1}
NormalDraws(loc, scale) == {R(loc + z * scale) : z \in Zs}

(***************************************************************************)
(* __init__                                                                *)
(***************************************************************************)
MeanVals == {-1, 2}
SdVals == {1}
Epsilons == {0, 1, RandRes}
InitialRewards == {[dtype |-> "float", val |-> R(0)],
                   [dtype |-> "float", val |-> <<5, 2>>],
                   [dtype |-> "int", val |-> R(3)]}

Arrays(n, vals) == [0 .. n - 1 -> vals]

\* an optional array argument: None, or the array given
None == [none |-> TRUE, arr |-> Repeat(0, 0)]
Some(arr) == [none |-> FALSE, arr |-> arr]
Optional(arrs) == {None} \cup {Some(arr) : arr \in arrs}

\* the documented preconditions of the constructor
Misconfigured(a) ==
    \/ a.k <= 0
    \/ a.iters <= 0
    \/ ~a.reward_means.none /\ Len(a.reward_means.arr) # a.k
    \/ ~a.reward_variances.none /\ Len(a.reward_variances.arr) # a.k

\* the values self.reward_means can take after construction
InitRewardMeans(a) ==
    IF a.reward_means.none THEN Arrays(a.k, MeanVals) ELSE {a.reward_means.arr}

InitRewardVariances(a) ==
    IF a.reward_variances.none THEN Repeat(1, a.k) ELSE a.reward_variances.arr

Construct(a) ==
    /\ misconfigured = Misconfigured(a)
    /\ k = a.k
    /\ epsilon = a.epsilon
    /\ iters = a.iters
    /\ dtype = a.initial_reward.dtype
    /\ total_reward = R(0)
    /\ iteration_counter = 0
    /\ chosen_action = 0
    /\ reward = R(0)
    /\ returned = "none"
    /\ branch = "none"
    /\ rounds = 0
    /\ calls = 0
    /\ ops = [choose |-> 0, reward |-> 0, update |-> 0]
    /\ IF a.k < 0
       THEN \* np.repeat(initial_reward, k) raises ValueError: no object is made
            /\ raised = "ValueError"
            /\ pc = "no_engine"
            /\ action_values = Repeat(R(0), 0)
            /\ action_chosen_counter = Repeat(0, 0)
            /\ reward_means = Repeat(0, 0)
            /\ reward_variances = Repeat(0, 0)
            /\ observed = Repeat(R(0), 0)
       ELSE /\ raised = "none"
            /\ pc = "idle"
            /\ action_values = Repeat(a.initial_reward.val, a.k)
            /\ action_chosen_counter = Repeat(0, a.k)
            /\ reward_means \in InitRewardMeans(a)
            /\ reward_variances = InitRewardVariances(a)
            /\ observed = Repeat(R(0), a.k)

ValidArgs ==
    UNION {[k : {n}, epsilon : Epsilons, iters : 1 .. MaxIters,
            initial_reward : InitialRewards,
            reward_means : Optional(Arrays(n, MeanVals)),
            reward_variances : Optional(Arrays(n, SdVals))] : n \in 1 .. MaxK}

Init == \E a \in ValidArgs : Construct(a)

\* every call the constructor accepts a value for, the misconfigured ones included
AnyArgs ==
    [k : -1 .. MaxK, epsilon : Epsilons, iters : -1 .. MaxIters,
     initial_reward : InitialRewards,
     reward_means : Optional(UNION {Arrays(n, MeanVals) : n \in 0 .. MaxK}),
     reward_variances : Optional(UNION {Arrays(n, SdVals) : n \in 0 .. MaxK})]

InitAny == \E a \in AnyArgs : Construct(a)

\* k_bandit_epsilon_greedy(2, 0, 3, 0.0, [5.0, -5.0], [0.0, 0.0])
ScenarioArgs ==
    [k |-> 2, epsilon |-> 0, iters |-> 3,
     initial_reward |-> [dtype |-> "float", val |-> R(0)],
     reward_means |-> Some([i \in 0 .. 1 |-> IF i = 0 THEN 5 ELSE -5]),
     reward_variances |-> Some(Repeat(0, 2))]

InitScenario == Construct(ScenarioArgs)

(***************************************************************************)
(* run_bandit                                                              *)
(***************************************************************************)
LoopCondStrict(i, n) == i < n
\* while iteration_counter <= self.iters
LoopCond(i, n) == i <= n

locals == <<iteration_counter, chosen_action, reward>>
engine == <<action_values, action_chosen_counter, total_reward>>

CallRunBandit ==
    /\ pc = "idle"
    /\ calls < MaxCalls
    /\ pc' = "loop"
    /\ iteration_counter' = 0
    /\ calls' = calls + 1
    /\ ops' = [choose |-> 0, reward |-> 0, update |-> 0]
    /\ raised' = "none"
    /\ returned' = "none"
    /\ UNCHANGED <<misconfigured, config, engine, chosen_action, reward, branch,
                   rounds, observed>>

EnterLoop ==
    /\ pc = "loop"
    /\ LoopCond(iteration_counter, iters)
    /\ pc' = "choose"
    /\ UNCHANGED <<misconfigured, raised, config, engine, locals, returned, branch,
                   rounds, calls, ops, observed>>

ReturnTotal ==
    /\ pc = "loop"
    /\ ~LoopCond(iteration_counter, iters)
    /\ pc' = "idle"
    /\ returned' = total_reward
    /\ UNCHANGED <<misconfigured, raised, config, engine, locals, branch, rounds,
                   calls, ops, observed>>

\* what choose_action can do on the draw rand_val: return an arm or raise
choose_action(rand_val) ==
    IF rand_val <= epsilon
    THEN IF k <= 0
         THEN {[branch |-> "explore", raise |-> "ValueError", action |-> 0]}
         ELSE {[branch |-> "explore", raise |-> "none", action |-> a] :
                  a \in RandintRange(k)}
    ELSE IF Len(action_values) = 0
         THEN {[branch |-> "exploit", raise |-> "ValueError", action |-> 0]}
         ELSE {[branch |-> "exploit", raise |-> "none",
                action |-> Argmax(action_values)]}

ChooseAction ==
    /\ pc = "choose"
    /\ \E rand_val \in RanfValues : \E out \in choose_action(rand_val) :
          /\ branch' = out.branch
          /\ ops' = [ops EXCEPT !.choose = @ + 1]
          /\ IF out.raise = "none"
             THEN /\ chosen_action' = out.action
                  /\ pc' = "reward"
                  /\ raised' = raised
             ELSE /\ chosen_action' = chosen_action
                  /\ pc' = "idle"
                  /\ raised' = out.raise
    /\ UNCHANGED <<misconfigured, config, engine, iteration_counter, reward,
                   returned, rounds, calls, observed>>

TotalOverwritten(total, r) == r
\* self.total_reward = self.total_reward + reward
TotalAfter(total, r) == RAdd(total, r)

GetReward ==
    /\ pc = "reward"
    /\ ops' = [ops EXCEPT !.reward = @ + 1]
    /\ IF chosen_action \in DOMAIN reward_means
          /\ chosen_action \in DOMAIN reward_variances
       THEN \E r \in NormalDraws(reward_means[chosen_action],
                                 reward_variances[chosen_action]) :
               /\ reward' = r
               /\ total_reward' = TotalAfter(total_reward, r)
               /\ pc' = "update"
               /\ raised' = raised
       ELSE /\ raised' = "IndexError"
            /\ pc' = "idle"
            /\ UNCHANGED <<reward, total_reward>>
    /\ UNCHANGED <<misconfigured, config, action_values, action_chosen_counter,
                   iteration_counter, chosen_action, returned, branch, rounds, calls,
                   observed>>

CounterAfterTwice(counter, a) == [counter EXCEPT ![a] = @ + 2]
\* self.action_chosen_counter[chosen_action] = self.action_chosen_counter[chosen_action] + 1
CounterAfter(counter, a) == [counter EXCEPT ![a] = @ + 1]

\* action_values[a] + 1/(counter[a]) * (reward - action_values[a])
NewValue(q, n, r) == RAdd(q, RMul(<<1, n>>, RSub(r, q)))

ValuesAfterAll(dt, values, counter, a, r) ==
    [b \in DOMAIN values |->
        IF counter[b] > 0 THEN NewValue(values[b], counter[b], r) ELSE values[b]]
\* self.action_values[chosen_action] = ...
ValuesAfter(dt, values, counter, a, r) ==
    SetItem(dt, values, a, NewValue(values[a], counter[a], r))

UpdateActionValues ==
    /\ pc = "update"
    /\ LET counter == CounterAfter(action_chosen_counter, chosen_action) IN
          /\ action_chosen_counter' = counter
          /\ action_values' =
                ValuesAfter(dtype, action_values, counter, chosen_action, reward)
    /\ iteration_counter' = iteration_counter + 1
    \* chosen_action and reward are written again before they are next read:
    \* the model forgets them, and the branch taken, at the end of the round
    /\ chosen_action' = 0
    /\ reward' = R(0)
    /\ branch' = "none"
    /\ ops' = [ops EXCEPT !.update = @ + 1]
    /\ rounds' = rounds + 1
    /\ observed' = [observed EXCEPT ![chosen_action] = RAdd(@, reward)]
    /\ pc' = "loop"
    /\ UNCHANGED <<misconfigured, raised, config, total_reward, returned, calls>>

Next ==
    \/ CallRunBandit
    \/ EnterLoop
    \/ ChooseAction
    \/ GetReward
    \/ UpdateActionValues
    \/ ReturnTotal

Spec == Init /\ [][Next]_vars

\* engines built from any constructor arguments
SpecConfig == InitAny /\ [][Next]_vars

\* the engine of the concrete scenario
SpecScenario == InitScenario /\ [][Next]_vars

(***************************************************************************)
(* Properties.                                                             *)
(***************************************************************************)
Arms == 0 .. k - 1
AllOps(n) == [choose |-> n, reward |-> n, update |-> n]
Mean(sum, n) == RMul(sum, <<1, n>>)

C2_LengthsAndCount ==
    pc # "no_engine" =>
        /\ Len(action_values) = k
        /\ Len(action_chosen_counter) = k
        /\ SumInts(action_chosen_counter, k) = rounds

C2_Witness ==
    /\ rounds >= 3
    /\ k = 2
    /\ action_chosen_counter[0] >= 1
    /\ action_chosen_counter[1] >= 1
    /\ SumInts(action_chosen_counter, k) = rounds

\* C3: once an arm has been selected n >= 1 times, its action value is the
\* arithmetic mean of the n rewards observed for it, whatever initial_reward was.
C3_ExactMean ==
    pc \in {"idle", "loop", "choose"} =>
        \A a \in Arms :
            action_chosen_counter[a] >= 1 =>
                action_values[a] = Mean(observed[a], action_chosen_counter[a])

\* C4: with epsilon = 0, choose_action never explores and returns the first
\* arm holding the maximal action value, whatever the uniform draw.
C4_GreedyAtZero ==
    (epsilon = 0 /\ pc = "reward") =>
        /\ branch = "exploit"
        /\ chosen_action = Argmax(action_values)

\* C5: a misconfigured construction (k <= 0, iters <= 0, or an array whose
\* length is not k) fails with an error (InvalidConfiguration; here any error
\* raised by the constructor is accepted), leaves no usable engine, and no
\* round is ever made.
C5_FailFast ==
    misconfigured =>
        /\ raised # "none"
        /\ pc = "no_engine"
        /\ rounds = 0

\* C6: in the scenario k=2, epsilon=0, means [5, -5], variances [0, 0],
\* initial_reward 0.0, iters=3: every round selects arm 0, every reward is 5,
\* arm 1 is never counted and run_bandit returns 5 times the rounds made.
C6_Scenario ==
    /\ pc \in {"reward", "update"} => chosen_action = 0
    /\ pc = "update" => reward = R(5)
    /\ action_chosen_counter[1] = 0
    /\ returned # "none" => returned = RMul(R(5), R(rounds))

C8_ChooseFrame ==
    [][pc = "choose" =>
          /\ UNCHANGED <<action_values, action_chosen_counter, total_reward,
                         reward_means, reward_variances>>
          /\ pc' = "reward" => chosen_action' \in Arms]_vars

C8_Witness ==
    /\ pc = "reward"
    /\ rounds >= 1
    /\ branch = "explore"
    /\ chosen_action = k - 1
    /\ chosen_action # Argmax(action_values)

\* C9: a round adds exactly 1 to the chosen arm's counter and leaves every
\* other arm's counter and action value as they were; k, epsilon, iters,
\* reward_means and reward_variances never change.
C9_RoundFrame ==
    [][/\ UNCHANGED <<k, epsilon, iters, reward_means, reward_variances>>
       /\ pc = "update" =>
             /\ action_chosen_counter'[chosen_action] =
                    action_chosen_counter[chosen_action] + 1
             /\ \A b \in Arms \ {chosen_action} :
                    /\ action_chosen_counter'[b] = action_chosen_counter[b]
                    /\ action_values'[b] = action_values[b]
       /\ pc # "update" =>
             UNCHANGED <<action_chosen_counter, action_values>>]_vars

C9_Witness ==
    /\ pc = "loop"
    /\ k = 2
    /\ action_chosen_counter[0] = 1
    /\ action_chosen_counter[1] = 2
    /\ action_values[0] # action_values[1]

RECURSIVE WeightedSum(_, _, _)
WeightedSum(counter, values, n) ==
    IF n <= 0 THEN R(0)
    ELSE RAdd(IF counter[n - 1] > 0
              THEN RMul(R(counter[n - 1]), values[n - 1])
              ELSE R(0),
              WeightedSum(counter, values, n - 1))

\* C10: after any number of completed rounds total_reward is the sum of the
\* rewards observed so far, and that is the sum of counter[a] * action_values[a]
\* over the arms selected at least once.
C10_TotalIsWeightedSum ==
    pc \in {"idle", "loop", "choose"} =>
        /\ total_reward = SumRats(observed, k)
        /\ total_reward = WeightedSum(action_chosen_counter, action_values, k)

====
